---- MODULE Spec2Model ----
(***************************************************************************)
(* Model of internal/config/config.go of easy_proxies: Load, the           *)
(* normalisation pipeline Config.normalize and the node-file parser        *)
(* loadNodesFromFile.                                                      *)
(*                                                                         *)
(* Go strings whose bytes the code inspects (node names, node URIs, the    *)
(* contents of the nodes file) are sequences of byte values.  Strings the  *)
(* code only compares for equality or emptiness (mode, credentials,        *)
(* addresses, paths) are TLA+ strings.                                     *)
(***************************************************************************)
EXTENDS Integers, Sequences, FiniteSets, TLC

----------------------------------------------------------------------------
(* Bounds of the model *)

\* largest number of inline nodes in a raw config
MaxNodes == 2
\* largest number of bytes in the nodes file
MaxFileLen == 3
\* largest number of bytes in a node URI whose fragment is examined
MaxURILen == 4
\* largest number of stand-alone calls of loadNodesFromFile
MaxParses == 2

----------------------------------------------------------------------------
(* Bytes *)

TAB == 9
LF == 10
VT == 11
FF == 12
CR == 13
SP == 32
HASH == 35
PERCENT == 37
PLUS == 43
COLON == 58

\* the literal "node-" of fmt.Sprintf("node-%d", idx)
NodePrefix == <<110, 111, 100, 101, 45>>

Min(S) == CHOOSE x \in S : \A y \in S : x <= y
Max(S) == CHOOSE x \in S : \A y \in S : x >= y

\* all byte strings over alphabet A of length at most n
Strs(A, n) == UNION {[1..k -> A] : k \in 0..n}

----------------------------------------------------------------------------
(* package strings *)

\* unicode.IsSpace restricted to ASCII: '\t', '\n', '\v', '\f', '\r', ' '
IsSpace(c) == c \in {TAB, LF, VT, FF, CR, SP}

\* strings.TrimSpace: the string without its leading and trailing white space
TrimSpace(s) ==
    LET keep == {i \in 1..Len(s) : ~IsSpace(s[i])}
    IN  IF keep = {} THEN <<>> ELSE SubSeq(s, Min(keep), Max(keep))

\* strings.HasPrefix(s, "#")
HasPrefixHash(s) == Len(s) >= 1 /\ s[1] = HASH

\* strings.Split(s, "\n"): the pieces between line feeds; never empty
RECURSIVE Split(_)
Split(s) ==
    LET nl == {i \in 1..Len(s) : s[i] = LF}
    IN  IF nl = {} THEN <<s>>
        ELSE <<SubSeq(s, 1, Min(nl) - 1)>> \o Split(SubSeq(s, Min(nl) + 1, Len(s)))

\* fmt.Sprintf("%d", n) for n >= 0
RECURSIVE Itoa(_)
Itoa(n) == IF n < 10 THEN <<48 + n>> ELSE Itoa(n \div 10) \o <<48 + (n % 10)>>

----------------------------------------------------------------------------
(* NodeConfig and the nodes file *)

NodeConfig(name, uri, port, username, password) ==
    [Name |-> name, URI |-> uri, Port |-> port,
     Username |-> username, Password |-> password]

\* the condition of the `continue` in loadNodesFromFile
SkipLineCommentsKept(line) == line = <<>>
SkipLine(line) == line = <<>> \/ HasPrefixHash(line)

\* the struct literal appended for a line: only URI is set
FileNodeNamed(line) == NodeConfig(line, line, 0, "", "")
FileNode(line) == NodeConfig(<<>>, line, 0, "", "")

\* the for loop of loadNodesFromFile from line number lineNum (1-based here)
RECURSIVE ScanLines(_, _, _)
ScanLines(lines, lineNum, nodes) ==
    IF lineNum > Len(lines) THEN nodes
    ELSE LET line == TrimSpace(lines[lineNum])
         IN  IF SkipLine(line)
             THEN ScanLines(lines, lineNum + 1, nodes)
             ELSE ScanLines(lines, lineNum + 1, Append(nodes, FileNode(line)))

\* loadNodesFromFile: file is [exists, data]; the result is (nodes, err)
loadNodesFromFile(file) ==
    IF ~file.exists
    THEN [nodes |-> <<>>, failed |-> TRUE]
    ELSE [nodes |-> ScanLines(Split(file.data), 1, <<>>), failed |-> FALSE]

----------------------------------------------------------------------------
(* package net/url, as far as normalize uses it: url.Parse(uri).Fragment   *)
(* and url.QueryUnescape.  Node URIs are drawn from alphabets without      *)
(* '/', '?', '@' and control bytes, so the authority and query branches of *)
(* url.Parse are not reached and are not modelled.                         *)

IsLetter(c) == (65 <= c /\ c <= 90) \/ (97 <= c /\ c <= 122)
IsDigit(c) == 48 <= c /\ c <= 57
\* ishex / unhex of net/url
IsHex(c) == IsDigit(c) \/ (97 <= c /\ c <= 102) \/ (65 <= c /\ c <= 70)
UnHex(c) == IF IsDigit(c) THEN c - 48
            ELSE IF 97 <= c /\ c <= 102 THEN c - 97 + 10
            ELSE c - 65 + 10

\* url.unescape(s, mode) from byte i on: every %XX becomes the byte 16*X+X,
\* '+' becomes ' ' in query-component mode only, and a '%' not followed by
\* two hex digits is an EscapeError.
RECURSIVE UnescapeFrom(_, _, _)
UnescapeFrom(s, i, plusIsSpace) ==
    IF i > Len(s) THEN [ok |-> TRUE, s |-> <<>>]
    ELSE IF s[i] = PERCENT
    THEN IF i + 2 > Len(s) \/ ~IsHex(s[i + 1]) \/ ~IsHex(s[i + 2])
         THEN [ok |-> FALSE, s |-> <<>>]
         ELSE LET r == UnescapeFrom(s, i + 3, plusIsSpace)
              IN  [ok |-> r.ok,
                   s |-> IF r.ok THEN <<16 * UnHex(s[i + 1]) + UnHex(s[i + 2])>> \o r.s
                         ELSE <<>>]
    ELSE LET r == UnescapeFrom(s, i + 1, plusIsSpace)
             c == IF s[i] = PLUS /\ plusIsSpace THEN SP ELSE s[i]
         IN  [ok |-> r.ok, s |-> IF r.ok THEN <<c>> \o r.s ELSE <<>>]

\* url.QueryUnescape(s) = unescape(s, encodeQueryComponent)
QueryUnescape(s) == UnescapeFrom(s, 1, TRUE)
\* unescape(s, encodePath) and unescape(s, encodeFragment)
PathUnescape(s) == UnescapeFrom(s, 1, FALSE)

\* url.getScheme: [ok, scheme, rest]
getScheme(rawURL) ==
    LET stops == {i \in 1..Len(rawURL) :
                    /\ ~IsLetter(rawURL[i])
                    /\ ~(i > 1 /\ (IsDigit(rawURL[i]) \/ rawURL[i] \in {43, 45, 46}))}
    IN  IF stops = {} THEN [ok |-> TRUE, scheme |-> <<>>, rest |-> rawURL]
        ELSE LET i == Min(stops)
             IN  IF rawURL[i] # COLON
                 THEN [ok |-> TRUE, scheme |-> <<>>, rest |-> rawURL]
                 ELSE IF i = 1
                 THEN [ok |-> FALSE, scheme |-> <<>>, rest |-> <<>>]
                 ELSE [ok |-> TRUE, scheme |-> SubSeq(rawURL, 1, i - 1),
                       rest |-> SubSeq(rawURL, i + 1, Len(rawURL))]

\* url.parse(u, false) succeeds, for u without '#': a URL with a scheme and a
\* rootless rest is opaque; without a scheme the first path segment must hold
\* no colon and the path must unescape.
parseOK(u) ==
    LET g == getScheme(u)
    IN  /\ g.ok
        /\ \/ g.scheme # <<>>
           \/ /\ \A i \in 1..Len(g.rest) : g.rest[i] # COLON
              /\ PathUnescape(g.rest).ok

\* url.Parse(rawURL): [ok, Fragment].  The text after the first '#' is cut off,
\* the rest is parsed, and the fragment is stored unescaped (setFragment).
Parse(rawURL) ==
    LET hs == {i \in 1..Len(rawURL) : rawURL[i] = HASH}
        u == IF hs = {} THEN rawURL ELSE SubSeq(rawURL, 1, Min(hs) - 1)
        frag == IF hs = {} THEN <<>> ELSE SubSeq(rawURL, Min(hs) + 1, Len(rawURL))
        f == PathUnescape(frag)
    IN  IF ~parseOK(u) THEN [ok |-> FALSE, Fragment |-> <<>>]
        ELSE IF frag = <<>> THEN [ok |-> TRUE, Fragment |-> <<>>]
        ELSE IF ~f.ok THEN [ok |-> FALSE, Fragment |-> <<>>]
        ELSE [ok |-> TRUE, Fragment |-> f.s]

----------------------------------------------------------------------------
(* Config and Config.normalize *)

\* largest value of a uint16 port, and the increment of a uint16
MaxUint16 == 65535
IncUint16(p) == (p + 1) % (MaxUint16 + 1)

\* defaults written by normalize
DefaultListenerPort == 2323
DefaultFailureThreshold == 3
DefaultBlacklistHours == 24
DefaultBasePort == 28000

\* the zero value of Config: what `var cfg Config` holds before decoding.
\* Management.Enabled is "nil", "true" or "false"; BlacklistDuration is in hours.
ZeroConfig ==
    [Mode |-> "",
     Listener |-> [Address |-> "", Port |-> 0, Username |-> "", Password |-> ""],
     MultiPort |-> [Address |-> "", BasePort |-> 0, Username |-> "", Password |-> ""],
     Pool |-> [Mode |-> "", FailureThreshold |-> 0, BlacklistDuration |-> 0],
     Management |-> [Enabled |-> "nil", Listen |-> "", ProbeTarget |-> ""],
     Nodes |-> <<>>,
     NodesFile |-> "",
     LogLevel |-> ""]

\* the errors Load returns; idx and mode carry the value the message names
NoErr == [kind |-> "nil", idx |-> 0, mode |-> ""]
ErrReadConfig == [kind |-> "read config", idx |-> 0, mode |-> ""]
ErrDecodeConfig == [kind |-> "decode config", idx |-> 0, mode |-> ""]
ErrUnsupportedMode(m) == [kind |-> "unsupported mode", idx |-> 0, mode |-> m]
ErrLoadNodesFile == [kind |-> "load nodes from file", idx |-> 0, mode |-> ""]
ErrEmptyNodes == [kind |-> "config.nodes cannot be empty", idx |-> 0, mode |-> ""]
ErrMissingURI(idx) == [kind |-> "node is missing uri", idx |-> idx, mode |-> ""]

\* mode defaulting and alias rewriting
ResolveModeNoAlias(mode) == IF mode = "" THEN "pool" ELSE mode
ResolveMode(mode) ==
    LET m == IF mode = "" THEN "pool" ELSE mode
    IN  IF m = "multi_port" THEN "multi-port" ELSE m

\* the switch on c.Mode
ModeSupported(mode) == mode \in {"pool", "multi-port"}

\* the defaults of listener, pool, multi_port and management
ApplyDefaults(c) ==
    [c EXCEPT
       !.Listener.Address = IF @ = "" THEN "0.0.0.0" ELSE @,
       !.Listener.Port = IF @ = 0 THEN DefaultListenerPort ELSE @,
       !.Pool.Mode = IF @ = "" THEN "sequential" ELSE @,
       !.Pool.FailureThreshold = IF @ <= 0 THEN DefaultFailureThreshold ELSE @,
       !.Pool.BlacklistDuration = IF @ <= 0 THEN DefaultBlacklistHours ELSE @,
       !.MultiPort.Address = IF @ = "" THEN "0.0.0.0" ELSE @,
       !.MultiPort.BasePort = IF @ = 0 THEN DefaultBasePort ELSE @,
       !.Management.Listen = IF @ = "" THEN "127.0.0.1:9090" ELSE @,
       !.Management.ProbeTarget = IF @ = "" THEN "www.apple.com:80" ELSE @,
       !.Management.Enabled = IF @ = "nil" THEN "true" ELSE @]

\* c.Nodes = append(c.Nodes, fileNodes...)
MergeNodesFileFirst(nodes, fileNodes) == fileNodes \o nodes
MergeNodes(nodes, fileNodes) == nodes \o fileNodes

\* the name taken from the URI fragment; empty when there is none
FragmentName(uri) ==
    LET parsed == Parse(uri)
    IN  IF parsed.ok /\ parsed.Fragment # <<>>
        THEN LET decoded == QueryUnescape(parsed.Fragment)
             IN  IF decoded.ok THEN decoded.s ELSE parsed.Fragment
        ELSE <<>>

\* name derivation of the node at zero-based index idx (name and uri trimmed)
DeriveName(name, uri, idx) ==
    LET n == IF name = <<>> THEN FragmentName(uri) ELSE name
    IN  IF n = <<>> THEN NodePrefix \o Itoa(idx) ELSE n

\* credential inheritance of one node in resolved mode `mode`
InheritCredentialsPerField(mode, mp, n) ==
    IF mode = "multi-port" /\ n.Username = ""
    THEN [n EXCEPT !.Username = mp.Username,
                   !.Password = IF @ = "" THEN mp.Password ELSE @]
    ELSE n
InheritCredentials(mode, mp, n) ==
    IF mode = "multi-port" /\ n.Username = ""
    THEN [n EXCEPT !.Username = mp.Username, !.Password = mp.Password]
    ELSE n

\* port assignment: the port of a node and the cursor after it
AssignPort(port, portCursor) == IF port = 0 THEN portCursor ELSE port
AdvanceCursor(port, portCursor) == IF port = 0 THEN IncUint16(portCursor) ELSE portCursor

\* one iteration of the loop past the URI check, on the node n with trimmed
\* name and URI at zero-based index idx
DeriveNode(mode, mp, n, idx, portCursor) ==
    InheritCredentials(mode, mp,
        [n EXCEPT !.Name = DeriveName(n.Name, n.URI, idx),
                  !.Port = AssignPort(n.Port, portCursor)])

\* the two TrimSpace assignments that open an iteration
TrimNode(n) == [n EXCEPT !.Name = TrimSpace(@), !.URI = TrimSpace(@)]

\* the loop over c.Nodes from zero-based index idx with the running portCursor:
\* the config as the loop leaves it, and the error it returns
RECURSIVE NodeLoop(_, _, _)
NodeLoop(c, idx, portCursor) ==
    IF idx >= Len(c.Nodes) THEN [cfg |-> c, err |-> NoErr]
    ELSE IF TrimSpace(c.Nodes[idx + 1].URI) = <<>>
    THEN [cfg |-> [c EXCEPT !.Nodes[idx + 1] = TrimNode(@)], err |-> ErrMissingURI(idx)]
    ELSE NodeLoop([c EXCEPT !.Nodes[idx + 1] =
                       DeriveNode(c.Mode, c.MultiPort, TrimNode(@), idx, portCursor)],
                  idx + 1,
                  AdvanceCursor(c.Nodes[idx + 1].Port, portCursor))

\* the end of normalize: the log level default after a loop without error
FinishNormalize(looped, reads) ==
    [cfg |-> IF looped.err = NoErr
             THEN [looped.cfg EXCEPT !.LogLevel = IF @ = "" THEN "info" ELSE @]
             ELSE looped.cfg,
     err |-> looped.err,
     reads |-> reads]

\* normalize from the emptiness check on, c holding the merged node list
NormalizeNodes(c, reads) ==
    IF Len(c.Nodes) = 0
    THEN [cfg |-> c, err |-> ErrEmptyNodes, reads |-> reads]
    ELSE FinishNormalize(NodeLoop(c, 0, c.MultiPort.BasePort), reads)

\* the merge of the nodes file, given what loadNodesFromFile returned
MergeLoaded(c, loaded) ==
    IF loaded.failed
    THEN [cfg |-> c, err |-> ErrLoadNodesFile, reads |-> 1]
    ELSE NormalizeNodes([c EXCEPT !.Nodes = MergeNodes(@, loaded.nodes)], 1)

\* normalize from the defaults on, c.Mode being resolved and supported
NormalizeSupported(c, file) ==
    IF c.NodesFile # ""
    THEN MergeLoaded(c, loadNodesFromFile(file))
    ELSE NormalizeNodes(c, 0)

\* normalize from the switch on c.Mode on
NormalizeResolved(c, file) ==
    IF ~ModeSupported(c.Mode)
    THEN [cfg |-> c, err |-> ErrUnsupportedMode(c.Mode), reads |-> 0]
    ELSE NormalizeSupported(ApplyDefaults(c), file)

\* Config.normalize on the decoded config c with the nodes file as it is on
\* disk: the config as normalize leaves it, the error it returns, and the
\* number of times it read the nodes file
normalize(c, file) == NormalizeResolved([c EXCEPT !.Mode = ResolveMode(@)], file)

\* what Load returns beside the error: the config, or nil with any error
LoadReturnAlways(c, e) == [nil |-> FALSE, cfg |-> c]
LoadReturn(c, e) ==
    IF e = NoErr THEN [nil |-> FALSE, cfg |-> c] ELSE [nil |-> TRUE, cfg |-> ZeroConfig]

----------------------------------------------------------------------------
(* State *)

VARIABLES
    doc,     \* the config document at `path`: [readable, decodes, cfg], cfg being
             \* the struct yaml.Unmarshal produces from it
    disk,    \* the nodes file: [exists, data]
    pc,      \* "start" before the call of Load, "done" after it returned
    cfg,     \* Load's local `cfg` as normalize left it
    ret,     \* the *Config Load returned: [nil, cfg]
    err,     \* the error Load returned
    reads,   \* how often Load read the nodes file
    parsed   \* the results of the stand-alone calls of loadNodesFromFile

vars == <<doc, disk, pc, cfg, ret, err, reads, parsed>>

NoFile == [exists |-> FALSE, data |-> <<>>]
File(data) == [exists |-> TRUE, data |-> data]

Nil == [nil |-> TRUE, cfg |-> ZeroConfig]

\* a decoded document with the given settings, everything else unset
Raw(mode, basePort, username, password, nodes, nodesFile) ==
    [ZeroConfig EXCEPT !.Mode = mode,
                       !.MultiPort.BasePort = basePort,
                       !.MultiPort.Username = username,
                       !.MultiPort.Password = password,
                       !.Nodes = nodes,
                       !.NodesFile = nodesFile]

\* node lists of at most n nodes drawn from S
NodeLists(S, n) == UNION {[1..k -> S] : k \in 0..n}

\* the state before Load is called, for a set of decoded documents and a set
\* of nodes files; the document may also be unreadable or undecodable
InitWith(cfgs, disks) ==
    /\ doc \in [readable : {TRUE}, decodes : {TRUE}, cfg : cfgs]
               \cup {[readable |-> FALSE, decodes |-> FALSE, cfg |-> ZeroConfig],
                     [readable |-> TRUE, decodes |-> FALSE, cfg |-> ZeroConfig]}
    /\ disk \in disks
    /\ pc = "start"
    /\ cfg = ZeroConfig
    /\ ret = Nil
    /\ err = NoErr
    /\ reads = 0
    /\ parsed = <<>>

----------------------------------------------------------------------------
(* Operations *)

\* Load(path)
Load ==
    /\ pc = "start"
    /\ pc' = "done"
    /\ IF ~doc.readable
       THEN cfg' = ZeroConfig /\ err' = ErrReadConfig /\ ret' = Nil /\ reads' = 0
       ELSE IF ~doc.decodes
       THEN cfg' = doc.cfg /\ err' = ErrDecodeConfig /\ ret' = Nil /\ reads' = 0
       ELSE /\ cfg' = normalize(doc.cfg, disk).cfg
            /\ err' = normalize(doc.cfg, disk).err
            /\ ret' = LoadReturn(cfg', err')
            /\ reads' = normalize(doc.cfg, disk).reads
    /\ UNCHANGED <<doc, disk, parsed>>

\* a call of loadNodesFromFile on the nodes file
ParseNodesFile ==
    /\ Len(parsed) < MaxParses
    /\ parsed' = Append(parsed, loadNodesFromFile(disk))
    /\ UNCHANGED <<doc, disk, pc, cfg, ret, err, reads>>

Next == Load \/ ParseNodesFile

----------------------------------------------------------------------------
(* Specifications: the same operations over different families of inputs *)

PlainNode(uri) == NodeConfig(<<>>, uri, 0, "", "")

\* inline and file nodes with blank, padded and plain URIs; nodes files of all
\* byte strings over ' ', '#', '\n', 'B'
MergeModes == {"", "x"}
MergeURIs == {<<>>, <<SP, 66>>, <<50>>}
MergeFiles == {NoFile} \cup {File(d) : d \in Strs({SP, HASH, LF, 66}, MaxFileLen)}
Init ==
    InitWith({Raw(m, 0, "", "", ns, f) :
                 m \in MergeModes,
                 ns \in NodeLists({PlainNode(u) : u \in MergeURIs}, MaxNodes),
                 f \in {"", "nodes.txt"}},
             MergeFiles)
Spec == Init /\ [][Next]_vars

\* every spelling of the mode, with and without nodes
ModeSet == {"", "pool", "multi-port", "multi_port", "Pool", "multi", " pool"}
InitMode ==
    InitWith({Raw(m, 0, "", "", ns, f) :
                 m \in ModeSet,
                 ns \in NodeLists({PlainNode(<<>>), PlainNode(<<66>>)}, MaxNodes),
                 f \in {"", "nodes.txt"}},
             {NoFile, File(<<>>), File(<<66>>)})
SpecMode == InitMode /\ [][Next]_vars

\* longer nodes files, read by a config without inline nodes
InitFile ==
    InitWith({Raw("", 0, "", "", <<>>, "nodes.txt")},
             {File(d) : d \in Strs({SP, HASH, LF, CR, 66}, MaxFileLen + 2)})
SpecFile == InitFile /\ [][Next]_vars

\* credentials of the nodes and of multi_port, set and unset
InitCred ==
    InitWith({Raw(m, 0, u, p, ns, f) :
                 m \in {"", "pool", "multi-port", "multi_port"},
                 u \in {"", "mu"}, p \in {"", "mp"},
                 ns \in NodeLists({NodeConfig(<<>>, <<66>>, 0, nu, np) :
                                      nu \in {"", "u"}, np \in {"", "p"}}, MaxNodes),
                 f \in {"", "nodes.txt"}},
             {File(<<50>>)})
SpecCred == InitCred /\ [][Next]_vars

\* base ports at both ends of the uint16 range, nodes with and without ports
InitPorts ==
    InitWith({Raw(m, b, "", "", ns, f) :
                 m \in {"", "multi-port"},
                 b \in {0, 1, MaxUint16 - 1, MaxUint16},
                 ns \in NodeLists({NodeConfig(<<>>, <<66>>, p, "", "") :
                                      p \in {0, DefaultBasePort, MaxUint16}}, MaxNodes),
                 f \in {"", "nodes.txt"}},
             {File(<<>>), File(<<50>>), File(<<50, LF, 66>>)})
SpecPorts == InitPorts /\ [][Next]_vars

\* explicit ports next to the block of assigned ones, far from the uint16 limit
InitExplicit ==
    InitWith({Raw(m, b, "", "", ns, f) :
                 m \in {"", "multi-port"},
                 b \in {0, 100},
                 ns \in NodeLists({NodeConfig(<<>>, <<66>>, p, "", "") :
                                      p \in {0, 100, 101, DefaultBasePort}}, MaxNodes),
                 f \in {"", "nodes.txt"}},
             {File(<<>>), File(<<50>>)})
SpecExplicit == InitExplicit /\ [][Next]_vars

\* every URI over ' ', '#', '%', '+', '2', '5', ':', 'B' as the last inline node
URIAlphabet == {SP, HASH, PERCENT, PLUS, 50, 53, COLON, 66}
InitNames ==
    InitWith({Raw("", 0, "", "", ns \o <<NodeConfig(n, u, 0, "", "")>>, "") :
                 ns \in NodeLists({PlainNode(<<66>>)}, MaxNodes - 1),
                 n \in {<<>>, <<SP>>, <<SP, 66>>},
                 u \in Strs(URIAlphabet, MaxURILen)},
             {NoFile})
SpecNames == InitNames /\ [][Next]_vars

----------------------------------------------------------------------------
(* Properties *)

Done == pc = "done"
Decoded == doc.readable /\ doc.decodes
Succeeded == Done /\ err = NoErr

\* the raw config, its inline list I, the file-derived list F, and I followed by F
raw == doc.cfg
FileList ==
    IF raw.NodesFile # "" /\ disk.exists THEN loadNodesFromFile(disk).nodes ELSE <<>>
Merged == raw.Nodes \o FileList

\* the configured multi_port.base_port, or the default when unset
ConfiguredBase ==
    IF raw.MultiPort.BasePort = 0 THEN DefaultBasePort ELSE raw.MultiPort.BasePort

\* the modes the pipeline accepts, as the raw config spells them
ModeAccepted(m) == m \in {"", "pool", "multi-port", "multi_port"}

\* bytes a..b of data lie on one line
SameLine(data, a, b) == \A m \in a..b : data[m] # LF
\* every byte that is not white space is preceded on its line by a '#' that only
\* white space precedes: the file holds only blank and comment lines
OnlyBlankOrComment(data) ==
    \A i \in 1..Len(data) :
        ~IsSpace(data[i]) =>
            \E j \in 1..i :
                /\ data[j] = HASH
                /\ SameLine(data, j, i)
                /\ \A k \in 1..(j - 1) : SameLine(data, k, j) => IsSpace(data[k])

\* the inputs whose merged node list is empty
EmptyInputs ==
    /\ raw.Nodes = <<>>
    /\ \/ raw.NodesFile = ""
       \/ disk.exists /\ OnlyBlankOrComment(disk.data)

\* C1: after a successful load the mode is "pool" or "multi-port", the node list
\* is not empty, and every node has a non-empty name, a non-empty URI and a
\* nonzero port.
C1_ResolvedConfigValid ==
    Succeeded =>
        /\ ret.cfg.Mode \in {"pool", "multi-port"}
        /\ Len(ret.cfg.Nodes) > 0
        /\ \A i \in 1..Len(ret.cfg.Nodes) :
              /\ ret.cfg.Nodes[i].Name # <<>>
              /\ ret.cfg.Nodes[i].URI # <<>>
              /\ ret.cfg.Nodes[i].Port # 0

\* C2: when no node has an explicit port, after a successful load the node at
\* merged-list index i has port basePort + i, for every base port of the uint16
\* range and in both modes.
C2_ContiguousPorts ==
    (Succeeded /\ \A i \in 1..Len(raw.Nodes) : raw.Nodes[i].Port = 0) =>
        \A i \in 1..Len(ret.cfg.Nodes) :
            ret.cfg.Nodes[i].Port = ConfiguredBase + (i - 1)

\* C3: an empty mode resolves to "pool", "multi_port" to "multi-port", "pool" and
\* "multi-port" are kept, and any other mode fails the load with the
\* unsupported-mode error naming it, whatever the nodes and the nodes file are.
C3_ModeResolution ==
    (Done /\ Decoded) =>
        /\ raw.Mode = "" => cfg.Mode = "pool" /\ err.kind # "unsupported mode"
        /\ raw.Mode = "multi_port" =>
              cfg.Mode = "multi-port" /\ err.kind # "unsupported mode"
        /\ raw.Mode \in {"pool", "multi-port"} =>
              cfg.Mode = raw.Mode /\ err.kind # "unsupported mode"
        /\ ~ModeAccepted(raw.Mode) => err = ErrUnsupportedMode(raw.Mode) /\ ret = Nil
        /\ err = NoErr => ret.cfg.Mode = cfg.Mode
C3_Witness ==
    /\ Done /\ err = NoErr
    /\ raw.Mode = "multi_port" /\ ret.cfg.Mode = "multi-port"
    /\ raw.NodesFile # "" /\ Len(raw.Nodes) > 0

\* C4 as stated: the load fails with the empty-node-list error exactly when the
\* inline list is empty and there is no nodes file or the readable nodes file
\* holds only blank and comment lines.
C4_EmptyListExactly ==
    (Done /\ Decoded) => (err = ErrEmptyNodes <=> EmptyInputs)
\* C4 amended: the same, for the configs whose mode the pipeline accepts.
C4_EmptyListWhenModeAccepted ==
    (Done /\ Decoded /\ ModeAccepted(raw.Mode)) => (err = ErrEmptyNodes <=> EmptyInputs)
C4_Witness ==
    /\ Done /\ err = ErrEmptyNodes
    /\ raw.NodesFile # "" /\ disk.exists
    /\ \E i \in 1..Len(disk.data) : disk.data[i] = HASH
    /\ \E i \in 1..Len(disk.data) : disk.data[i] = LF

\* C5: after a successful load the node list has length |I| + |F| and its URIs
\* are the trimmed URIs of I in order followed by those of F in order.
C5_MergeOrder ==
    Succeeded =>
        /\ Len(ret.cfg.Nodes) = Len(raw.Nodes) + Len(FileList)
        /\ \A i \in 1..Len(raw.Nodes) :
              ret.cfg.Nodes[i].URI = TrimSpace(raw.Nodes[i].URI)
        /\ \A j \in 1..Len(FileList) :
              ret.cfg.Nodes[Len(raw.Nodes) + j].URI = FileList[j].URI
C5_Witness ==
    /\ Succeeded
    /\ Len(raw.Nodes) = 2 /\ Len(FileList) = 2
    /\ raw.Nodes[1].URI = <<SP, 66>> /\ raw.Nodes[2].URI = <<50>>
    /\ ret.cfg.Nodes[1].URI = <<66>> /\ ret.cfg.Nodes[2].URI = <<50>>
    /\ ret.cfg.Nodes[3].URI = <<66>>

\* the lines of the file after trimming, and those that yield a descriptor
Qualifies(line) == line # <<>> /\ line[1] # HASH
TrimmedLines(data) == [i \in 1..Len(Split(data)) |-> TrimSpace(Split(data)[i])]
ExpectedURIs(data) == SelectSeq(TrimmedLines(data), Qualifies)

\* C6: loadNodesFromFile returns one descriptor per line that is non-empty and
\* not a comment after trimming, in file order, with the trimmed line as URI, an
\* empty name and port 0; and every call on the same contents returns the same.
C6_NodeFileParsing ==
    \A k \in 1..Len(parsed) :
        /\ disk.exists => ~parsed[k].failed
        /\ Len(Split(disk.data)) =
              Cardinality({i \in 1..Len(disk.data) : disk.data[i] = LF}) + 1
        /\ Len(parsed[k].nodes) = Len(ExpectedURIs(disk.data))
        /\ \A i \in 1..Len(parsed[k].nodes) :
              /\ parsed[k].nodes[i].URI = ExpectedURIs(disk.data)[i]
              /\ parsed[k].nodes[i].URI # <<>>
              /\ parsed[k].nodes[i].URI[1] # HASH
              /\ parsed[k].nodes[i].Name = <<>>
              /\ parsed[k].nodes[i].Port = 0
        /\ \A l \in 1..Len(parsed) : parsed[l] = parsed[k]
C6_Witness ==
    /\ Len(parsed) = 2
    /\ Len(parsed[2].nodes) = 1
    /\ Len(Split(disk.data)) = 3
    /\ \E i \in 1..Len(disk.data) : disk.data[i] = HASH
    /\ \E i \in 1..Len(disk.data) : disk.data[i] = SP

\* the text after the first '#' of a URI
RawFragment(uri) ==
    LET hs == {i \in 1..Len(uri) : uri[i] = HASH}
    IN  IF hs = {} THEN <<>> ELSE SubSeq(uri, Min(hs) + 1, Len(uri))
\* the name C7 gives the node at zero-based index idx
ClaimedName(name, uri, idx) ==
    LET n == TrimSpace(name)
        u == TrimSpace(uri)
        frag == RawFragment(u)
    IN  IF n # <<>> THEN n
        ELSE IF Parse(u).ok /\ frag # <<>>
        THEN IF PathUnescape(frag).ok THEN PathUnescape(frag).s ELSE frag
        ELSE NodePrefix \o Itoa(idx)

\* C7: the name of the node at merged-list index i is its trimmed explicit name
\* if that is non-empty; else, if the URI parses and has a non-empty fragment,
\* the percent-decoded fragment, or the raw fragment when decoding fails; else
\* "node-<i>".
C7_NameDerivation ==
    Succeeded =>
        \A i \in 1..Len(ret.cfg.Nodes) :
            ret.cfg.Nodes[i].Name = ClaimedName(Merged[i].Name, Merged[i].URI, i - 1)

\* C8: in mode "pool" every node keeps its username and password; in mode
\* "multi-port" a node with a username keeps both, and a node without one gets
\* the username and the password of multi_port, whatever password it had.
C8_CredentialInheritance ==
    Succeeded =>
        /\ Len(ret.cfg.Nodes) = Len(Merged)
        /\ \A i \in 1..Len(Merged) :
              IF ret.cfg.Mode = "multi-port" /\ Merged[i].Username = ""
              THEN /\ ret.cfg.Nodes[i].Username = raw.MultiPort.Username
                   /\ ret.cfg.Nodes[i].Password = raw.MultiPort.Password
              ELSE /\ ret.cfg.Nodes[i].Username = Merged[i].Username
                   /\ ret.cfg.Nodes[i].Password = Merged[i].Password
C8_Witness ==
    /\ Succeeded /\ raw.Mode = "multi_port"
    /\ raw.MultiPort.Username = "mu" /\ raw.MultiPort.Password = ""
    /\ Len(raw.Nodes) = 2
    /\ raw.Nodes[1].Username = "" /\ raw.Nodes[1].Password = "p"
    /\ raw.Nodes[2].Username = "u" /\ raw.Nodes[2].Password = "p"
    /\ ret.cfg.Nodes[1].Username = "mu" /\ ret.cfg.Nodes[1].Password = ""
    /\ ret.cfg.Nodes[2].Password = "p"

\* the merged-list positions whose URI is blank
BlankURIs ==
    {i \in 1..Len(Merged) : \A k \in 1..Len(Merged[i].URI) : IsSpace(Merged[i].URI[k])}
\* the error of the earliest failing step of the pipeline
FirstError ==
    IF ~doc.readable THEN ErrReadConfig
    ELSE IF ~doc.decodes THEN ErrDecodeConfig
    ELSE IF ~ModeAccepted(raw.Mode) THEN ErrUnsupportedMode(raw.Mode)
    ELSE IF raw.NodesFile # "" /\ ~disk.exists THEN ErrLoadNodesFile
    ELSE IF Merged = <<>> THEN ErrEmptyNodes
    ELSE IF BlankURIs # {} THEN ErrMissingURI(Min(BlankURIs) - 1)
    ELSE NoErr

\* C9: Load returns the error of the earliest failing step (unsupported mode,
\* nodes-file read failure, empty merged list, missing URI at the lowest blank
\* index), no later step has run, and with any error Load returns nil.
C9_FailFast ==
    Done =>
        /\ err = FirstError
        /\ err # NoErr => ret = Nil
        /\ err = NoErr => ret = [nil |-> FALSE, cfg |-> cfg]
        /\ err.kind \in {"read config", "decode config"} => reads = 0
        /\ err.kind = "unsupported mode" => reads = 0 /\ cfg = raw
        /\ err.kind = "load nodes from file" =>
              cfg.Nodes = raw.Nodes /\ cfg.LogLevel = raw.LogLevel
        /\ err.kind = "config.nodes cannot be empty" => cfg.LogLevel = raw.LogLevel
        /\ err.kind = "node is missing uri" =>
              /\ cfg.LogLevel = raw.LogLevel
              /\ \A j \in (err.idx + 2)..Len(cfg.Nodes) : cfg.Nodes[j] = Merged[j]
C9_Witness ==
    /\ Done /\ err = ErrMissingURI(1) /\ ret = Nil
    /\ Len(raw.Nodes) = 2 /\ Len(FileList) = 1
    /\ raw.Nodes[1].URI = <<SP, 66>> /\ raw.Nodes[2].URI = <<>>
    /\ cfg.Nodes[1].URI = <<66>> /\ cfg.Nodes[1].Port = DefaultBasePort

\* how many nodes before position i get their port from the cursor
AutoBefore(i) == Cardinality({j \in 1..(i - 1) : Merged[j].Port = 0})

\* C10: after a successful load every node with an explicit port keeps it and
\* does not advance the cursor, and the port assigned to a node without one
\* differs from the port of every other node.
C10_PortsDistinct ==
    Succeeded =>
        \A i \in 1..Len(ret.cfg.Nodes) :
            IF Merged[i].Port # 0
            THEN ret.cfg.Nodes[i].Port = Merged[i].Port
            ELSE /\ ret.cfg.Nodes[i].Port = (ConfiguredBase + AutoBefore(i)) % (MaxUint16 + 1)
                 /\ \A j \in 1..Len(ret.cfg.Nodes) :
                       j # i => ret.cfg.Nodes[j].Port # ret.cfg.Nodes[i].Port

====
